---- MODULE Spec2Model ----
(***************************************************************************)
(* Session statistics (codex-rs/tui/src/session_stats.rs) and the          *)
(* scrollable /stats popup (codex-rs/tui/src/bottom_pane/stats_view.rs).   *)
(*                                                                         *)
(* SessionStats is the aggregator, StatsView the popup controller.  The    *)
(* popup's ScrollState (bottom_pane/scroll_state.rs) and MAX_POPUP_ROWS    *)
(* (bottom_pane/popup_consts.rs) are modelled from the specification's     *)
(* ScrollWindow section.                                                   *)
(***************************************************************************)
EXTENDS Integers, Sequences, FiniteSets, TLC

(* ------------------------------ bounds --------------------------------- *)
\* Longest list the free ScrollWindow driver scrolls over.
MaxListLength == 5
\* Largest render area height handed to StatsView::render.
MaxAreaHeight == 14
\* Aggregator calls made before the popup is opened (SpecView).
MaxSetupCalls == 1
\* Aggregator calls in one run of an aggregator specification.
MaxCalls == 4
\* Last instant the clock reaches, in milliseconds.
MaxTime == 3
\* Distinct files accessed, and turns recorded, before the popup of
\* SpecLines is opened.
MaxLineFiles == 4
MaxLineTurns == 6
\* Milliseconds on either side of each format_duration cutoff that are
\* formatted.
FormatWindow == 25

(* ----------------------------- variables ------------------------------- *)
VARIABLES
    \* SessionStats
    commands, files_modified, files_accessed, turn_token_usage, current_turn,
    model_wait_time, tool_execution_time, model_request_start,
    tool_execution_start, session_start,
    \* the monotonic clock read by Instant::now()
    now,
    \* StatsView
    popup, lines, state, complete, last_visible_rows,
    \* a free-standing ScrollState and the list length it is driven with
    win, list_length,
    \* the files_accessed map of a second aggregator given the same calls
    twin_accessed,
    \* the most recent call and what it returned
    last_call,
    \* every aggregator call made so far, in order
    history

statsVars == <<commands, files_modified, files_accessed, turn_token_usage,
               current_turn, model_wait_time, tool_execution_time,
               model_request_start, tool_execution_start, session_start>>
viewVars == <<popup, lines, state, complete, last_visible_rows>>
scrollVars == <<win, list_length>>
twinVars == <<twin_accessed>>
vars == <<statsVars, now, viewVars, scrollVars, twinVars, last_call, history>>

Min(a, b) == IF a < b THEN a ELSE b
Max(a, b) == IF a > b THEN a ELSE b
\* u16 / usize saturating_sub
SaturatingSub(a, b) == IF a > b THEN a - b ELSE 0

(* ============================ ScrollState ============================== *)
\* Option::None for selected_idx and for the open-interval markers.
None == -1

ScrollStateNew == [selected_idx |-> None, scroll_top |-> 0]

\* move_selection_up: no-op on an empty list, else decrement, 0 wraps to
\* list_length - 1.
move_up_wrap_wrong(st, len) ==
    IF len = 0 \/ st.selected_idx = None THEN st
    ELSE [st EXCEPT !.selected_idx = IF @ = 0 THEN 0 ELSE @ - 1]
move_up_wrap(st, len) ==
    IF len = 0 \/ st.selected_idx = None THEN st
    ELSE [st EXCEPT !.selected_idx = IF @ = 0 THEN len - 1 ELSE @ - 1]

\* move_selection_down: the symmetric wrap.
move_down_wrap(st, len) ==
    IF len = 0 \/ st.selected_idx = None THEN st
    ELSE [st EXCEPT !.selected_idx = IF @ = len - 1 THEN 0 ELSE @ + 1]

\* ensure_visible: move scroll_top no further than needed to bring the
\* selection into [scroll_top, scroll_top + viewport_rows), then clamp it
\* into [0, max(0, list_length - viewport_rows)].
ensure_visible_late(st, len, viewport_rows) ==
    LET sel == st.selected_idx
        top == st.scroll_top
        adjusted == IF viewport_rows > 0 /\ sel # None
                    THEN IF sel < top THEN sel
                         ELSE IF sel > top + viewport_rows
                              THEN sel - viewport_rows + 1
                              ELSE top
                    ELSE top
    IN  [st EXCEPT !.scroll_top =
            Max(0, Min(adjusted, Max(0, len - viewport_rows)))]
ensure_visible_noclamp(st, len, viewport_rows) ==
    LET sel == st.selected_idx
        top == st.scroll_top
    IN  [st EXCEPT !.scroll_top =
            IF viewport_rows > 0 /\ sel # None
            THEN IF sel < top THEN sel
                 ELSE IF sel >= top + viewport_rows
                      THEN sel - viewport_rows + 1
                      ELSE top
            ELSE top]
ensure_visible_pin_top(st, len, viewport_rows) ==
    LET sel == st.selected_idx
        adjusted == IF viewport_rows > 0 /\ sel # None THEN sel ELSE st.scroll_top
    IN  [st EXCEPT !.scroll_top =
            Max(0, Min(adjusted, Max(0, len - viewport_rows)))]
ensure_visible(st, len, viewport_rows) ==
    LET sel == st.selected_idx
        top == st.scroll_top
        adjusted == IF viewport_rows > 0 /\ sel # None
                    THEN IF sel < top THEN sel
                         ELSE IF sel >= top + viewport_rows
                              THEN sel - viewport_rows + 1
                              ELSE top
                    ELSE top
    IN  [st EXCEPT !.scroll_top =
            Max(0, Min(adjusted, Max(0, len - viewport_rows)))]

(* ============================ SessionStats ============================= *)
\* Inputs of the aggregator calls.
ExitCodes == {0, 1, -1}
Durations == {500, 1500}
Paths == {"src/main.rs", "src/lib.rs"}
TokenUsages == {[input_tokens |-> 10, output_tokens |-> 5,
                 reasoning_output_tokens |-> 1, cached_input_tokens |-> 2],
                [input_tokens |-> 0, output_tokens |-> 0,
                 reasoning_output_tokens |-> 0, cached_input_tokens |-> 0]}

Call(op, arg) == [op |-> op, arg |-> arg]
Log(op, arg) ==
    /\ last_call' = Call(op, arg)
    /\ history' = Append(history, Call(op, arg))

\* SessionStats::new
SessionStatsNew ==
    /\ commands = <<>>
    /\ files_modified = <<>>
    /\ files_accessed = <<>>
    /\ turn_token_usage = <<>>
    /\ current_turn = 0
    /\ model_wait_time = 0
    /\ tool_execution_time = 0
    /\ model_request_start = None
    /\ tool_execution_start = None
    /\ session_start = now

(* ----------------------------- commands -------------------------------- *)
is_success_wrong(c) == c.exit_code >= 0
is_success(c) == c.exit_code = 0

record_command(exit_code, duration) ==
    /\ commands' = Append(commands, [exit_code |-> exit_code, duration |-> duration])
    /\ Log("record_command", <<exit_code, duration>>)
    /\ UNCHANGED <<files_modified, files_accessed, turn_token_usage, current_turn,
                   model_wait_time, tool_execution_time, model_request_start,
                   tool_execution_start, session_start, now, viewVars, scrollVars, twinVars>>

total_commands == Len(commands)
successful_commands == Cardinality({i \in DOMAIN commands : is_success(commands[i])})
failed_commands == Cardinality({i \in DOMAIN commands : ~is_success(commands[i])})

\* success_rate as the exact fraction <<numerator, denominator>> of
\* (successful as f64 / len as f64) * 100.0; 100.0 on an empty log.
success_rate ==
    IF commands = <<>> THEN <<100, 1>>
    ELSE <<successful_commands * 100, Len(commands)>>

RECURSIVE SumDurations(_)
SumDurations(cs) ==
    IF cs = <<>> THEN 0 ELSE cs[1].duration + SumDurations(Tail(cs))
total_command_time == SumDurations(commands)

(* ------------------------------- files --------------------------------- *)
\* A HashMap<PathBuf, u32> is the sequence of its (path, count) entries in
\* the order iter() yields them.  That order is not fixed by the program:
\* inserting a new key may leave the entries in any order.
Keys(map) == {map[i].path : i \in DOMAIN map}
Count(map, path) ==
    IF path \in Keys(map)
    THEN (CHOOSE e \in {map[i] : i \in DOMAIN map} : e.path = path).count
    ELSE 0
Orders(entries) ==
    {s \in [1..Cardinality(entries) -> entries] :
        \A i, j \in DOMAIN s : i # j => s[i] # s[j]}

\* *map.entry(path).or_insert(0) += 1: the maps this may yield
TouchReplacing(map, path) ==
    IF path \in Keys(map)
    THEN {[i \in DOMAIN map |-> IF map[i].path = path
                                THEN [path |-> path, count |-> 1]
                                ELSE map[i]]}
    ELSE Orders({map[i] : i \in DOMAIN map} \cup {[path |-> path, count |-> 0 + 1]})
Touch(map, path) ==
    IF path \in Keys(map)
    THEN {[i \in DOMAIN map |-> IF map[i].path = path
                                THEN [map[i] EXCEPT !.count = @ + 1]
                                ELSE map[i]]}
    ELSE Orders({map[i] : i \in DOMAIN map} \cup {[path |-> path, count |-> 0 + 1]})

record_file_modified(path) ==
    /\ files_modified' \in Touch(files_modified, path)
    /\ Log("record_file_modified", path)
    /\ UNCHANGED <<commands, files_accessed, turn_token_usage, current_turn,
                   model_wait_time, tool_execution_time, model_request_start,
                   tool_execution_start, session_start, now, viewVars, scrollVars, twinVars>>

record_file_accessed(path) ==
    /\ files_accessed' \in Touch(files_accessed, path)
    /\ Log("record_file_accessed", path)
    /\ UNCHANGED <<commands, files_modified, turn_token_usage, current_turn,
                   model_wait_time, tool_execution_time, model_request_start,
                   tool_execution_start, session_start, now, viewVars, scrollVars, twinVars>>

files_modified_count == Len(files_modified)
files_accessed_count == Len(files_accessed)

\* Vec::sort_by(|a, b| b.1.cmp(&a.1)): a stable sort, descending by count
RECURSIVE InsertByCount(_, _)
InsertByCount(sorted, e) ==
    IF sorted = <<>> THEN <<e>>
    ELSE IF sorted[1].count >= e.count
         THEN <<sorted[1]>> \o InsertByCount(Tail(sorted), e)
         ELSE <<e>> \o sorted
RECURSIVE SortByCountDesc(_)
SortByCountDesc(entries) ==
    IF entries = <<>> THEN <<>>
    ELSE InsertByCount(SortByCountDesc(SubSeq(entries, 1, Len(entries) - 1)),
                       entries[Len(entries)])
\* Vec::truncate
Truncate(seq, limit) == SubSeq(seq, 1, Min(limit, Len(seq)))

top_accessed_files_unsorted(limit) == Truncate(files_accessed, limit)
top_accessed_files(limit) == Truncate(SortByCountDesc(files_accessed), limit)
top_modified_files(limit) == Truncate(SortByCountDesc(files_modified), limit)

(* ------------------------------- turns --------------------------------- *)
start_turn ==
    /\ current_turn' = current_turn + 1
    /\ Log("start_turn", <<>>)
    /\ UNCHANGED <<commands, files_modified, files_accessed, turn_token_usage,
                   model_wait_time, tool_execution_time, model_request_start,
                   tool_execution_start, session_start, now, viewVars, scrollVars, twinVars>>

record_turn_tokens_by_position(usage) ==
    /\ turn_token_usage' = Append(turn_token_usage,
            [turn_number |-> Len(turn_token_usage),
             input_tokens |-> usage.input_tokens,
             output_tokens |-> usage.output_tokens,
             reasoning_tokens |-> usage.reasoning_output_tokens,
             cached_tokens |-> usage.cached_input_tokens])
    /\ Log("record_turn_tokens", usage)
    /\ UNCHANGED <<commands, files_modified, files_accessed, current_turn,
                   model_wait_time, tool_execution_time, model_request_start,
                   tool_execution_start, session_start, now, viewVars, scrollVars, twinVars>>
record_turn_tokens(usage) ==
    /\ turn_token_usage' = Append(turn_token_usage,
            [turn_number |-> current_turn,
             input_tokens |-> usage.input_tokens,
             output_tokens |-> usage.output_tokens,
             reasoning_tokens |-> usage.reasoning_output_tokens,
             cached_tokens |-> usage.cached_input_tokens])
    /\ Log("record_turn_tokens", usage)
    /\ UNCHANGED <<commands, files_modified, files_accessed, current_turn,
                   model_wait_time, tool_execution_time, model_request_start,
                   tool_execution_start, session_start, now, viewVars, scrollVars, twinVars>>

(* ------------------------------- timing -------------------------------- *)
\* Instant::elapsed on the monotonic clock
Elapsed(start) == now - start

start_model_request_keeping_first ==
    /\ model_request_start' =
            IF model_request_start # None THEN model_request_start ELSE now
    /\ Log("start_model_request", now)
    /\ UNCHANGED <<commands, files_modified, files_accessed, turn_token_usage,
                   current_turn, model_wait_time, tool_execution_time,
                   tool_execution_start, session_start, now, viewVars, scrollVars, twinVars>>
start_model_request ==
    /\ model_request_start' = now
    /\ Log("start_model_request", now)
    /\ UNCHANGED <<commands, files_modified, files_accessed, turn_token_usage,
                   current_turn, model_wait_time, tool_execution_time,
                   tool_execution_start, session_start, now, viewVars, scrollVars, twinVars>>

end_model_request_from_session_start ==
    /\ model_wait_time' = model_wait_time +
            Elapsed(IF model_request_start # None THEN model_request_start
                    ELSE session_start)
    /\ model_request_start' = None
    /\ Log("end_model_request", now)
    /\ UNCHANGED <<commands, files_modified, files_accessed, turn_token_usage,
                   current_turn, tool_execution_time,
                   tool_execution_start, session_start, now, viewVars, scrollVars, twinVars>>
end_model_request ==
    /\ IF model_request_start # None
       THEN model_wait_time' = model_wait_time + Elapsed(model_request_start)
       ELSE model_wait_time' = model_wait_time
    /\ model_request_start' = None
    /\ Log("end_model_request", now)
    /\ UNCHANGED <<commands, files_modified, files_accessed, turn_token_usage,
                   current_turn, tool_execution_time,
                   tool_execution_start, session_start, now, viewVars, scrollVars, twinVars>>

start_tool_execution ==
    /\ tool_execution_start' = now
    /\ Log("start_tool_execution", now)
    /\ UNCHANGED <<commands, files_modified, files_accessed, turn_token_usage,
                   current_turn, model_wait_time, tool_execution_time,
                   model_request_start, session_start, now, viewVars, scrollVars, twinVars>>

end_tool_execution_keeping_marker ==
    /\ IF tool_execution_start # None
       THEN tool_execution_time' = tool_execution_time + Elapsed(tool_execution_start)
       ELSE tool_execution_time' = tool_execution_time
    /\ Log("end_tool_execution", now)
    /\ UNCHANGED <<commands, files_modified, files_accessed, turn_token_usage,
                   current_turn, model_wait_time, tool_execution_start,
                   model_request_start, session_start, now, viewVars, scrollVars, twinVars>>
end_tool_execution ==
    /\ IF tool_execution_start # None
       THEN tool_execution_time' = tool_execution_time + Elapsed(tool_execution_start)
       ELSE tool_execution_time' = tool_execution_time
    /\ tool_execution_start' = None
    /\ Log("end_tool_execution", now)
    /\ UNCHANGED <<commands, files_modified, files_accessed, turn_token_usage,
                   current_turn, model_wait_time,
                   model_request_start, session_start, now, viewVars, scrollVars, twinVars>>

session_duration == Elapsed(session_start)

\* The clock advances between calls.
Tick ==
    /\ now < MaxTime
    /\ now' = now + 1
    /\ UNCHANGED <<statsVars, viewVars, scrollVars, twinVars, last_call, history>>

(* ======================= build_stats_lines ============================= *)
\* format_duration: the representation chosen and its numbers
format_duration_exclusive(d) ==
    LET secs == d \div 1000
    IN  IF secs > 3600 THEN <<"h m", secs \div 3600, (secs % 3600) \div 60>>
        ELSE IF secs > 60 THEN <<"m s", secs \div 60, secs % 60>>
        ELSE IF secs > 0 THEN <<"s", secs>>
        ELSE <<"ms", d>>
format_duration(d) ==
    LET secs == d \div 1000
    IN  IF secs >= 3600 THEN <<"h m", secs \div 3600, (secs % 3600) \div 60>>
        ELSE IF secs >= 60 THEN <<"m s", secs \div 60, secs % 60>>
        ELSE IF secs > 0 THEN <<"s", secs>>
        ELSE <<"ms", d>>

\* format_tokens_compact belongs to crate::status; its output is kept
\* symbolic.
format_tokens_compact(n) == <<"tokens", n>>

RECURSIVE SumField(_, _)
SumField(turns, f) ==
    IF turns = <<>> THEN 0 ELSE turns[1][f] + SumField(Tail(turns), f)
total_input_tokens == SumField(turn_token_usage, "input_tokens")
total_output_tokens == SumField(turn_token_usage, "output_tokens")
\* TurnTokenUsage::total summed over the turns
total_tokens == total_input_tokens + total_output_tokens

\* model_wait_percentage / tool_execution_percentage as the exact fraction
\* <<numerator, denominator>> of (accumulated / total) * 100.0; 0.0 when the
\* session duration is zero.
PercentageUnguarded(accumulated) == <<accumulated * 100, session_duration>>
Percentage(accumulated) ==
    IF session_duration = 0 THEN <<0, 1>>
    ELSE <<accumulated * 100, session_duration>>
model_wait_percentage == Percentage(model_wait_time)
tool_execution_percentage == Percentage(tool_execution_time)

\* Path::file_name of the paths recorded here
FileName(path) ==
    CASE path = "src/main.rs" -> "main.rs"
      [] path = "src/lib.rs" -> "lib.rs"
      [] OTHER -> path

section_header(title) == <<"header", title>>
stat_line(label, value) == <<"stat", label, value>>
BlankLine == <<"">>

TopAccessedLinesUnlimited ==
    LET top == top_accessed_files(files_accessed_count)
    IN  IF top = <<>> THEN <<>>
        ELSE <<<<"Top accessed:">>>> \o
             [i \in DOMAIN top |-> <<"file", FileName(top[i].path), top[i].count>>]
TopAccessedLines ==
    LET top == top_accessed_files(3)
    IN  IF top = <<>> THEN <<>>
        ELSE <<<<"Top accessed:">>>> \o
             [i \in DOMAIN top |-> <<"file", FileName(top[i].path), top[i].count>>]

\* iter().rev().take(5).rev(): the last five turns, oldest first
RecentTurnLines ==
    LET n == Len(turn_token_usage)
        recent == SubSeq(turn_token_usage, Max(1, n - 4), n)
    IN  IF n = 0 THEN <<>>
        ELSE <<<<"Recent turns:">>>> \o
             [i \in DOMAIN recent |->
                <<"turn", recent[i].turn_number,
                  format_tokens_compact(recent[i].input_tokens),
                  format_tokens_compact(recent[i].output_tokens)>>]

build_stats_lines ==
    <<section_header("Commands"),
      stat_line("Total executed", total_commands),
      stat_line("Successful", <<successful_commands, success_rate>>),
      stat_line("Failed", failed_commands),
      stat_line("Total exec time", format_duration(total_command_time)),
      BlankLine,
      section_header("Files"),
      stat_line("Files modified", files_modified_count),
      stat_line("Files accessed", files_accessed_count)>>
    \o TopAccessedLines \o
    <<BlankLine,
      section_header("Turns & Tokens"),
      stat_line("Total turns", current_turn),
      stat_line("Total tokens", format_tokens_compact(total_tokens)),
      stat_line("Input tokens", format_tokens_compact(total_input_tokens)),
      stat_line("Output tokens", format_tokens_compact(total_output_tokens))>>
    \o RecentTurnLines \o
    <<BlankLine,
      section_header("Timing"),
      stat_line("Session duration", format_duration(session_duration)),
      stat_line("Model wait time",
                <<format_duration(model_wait_time), model_wait_percentage>>),
      stat_line("Tool exec time",
                <<format_duration(tool_execution_time), tool_execution_percentage>>)>>

(* ============================== StatsView ============================== *)
\* popup_consts::MAX_POPUP_ROWS, the configured maximum row count
MAX_POPUP_ROWS == 8
\* The header column holds two lines, each one row high.
HeaderHeight == 2

KeyCodes == {"Up", "Down", "k", "j", "Esc", "Enter", "x"}
KeyModifiers == {"NONE", "CONTROL"}
KeyEvents == [code : KeyCodes, modifiers : KeyModifiers]
\* Widths of the render area: none, and a terminal's.
AreaWidths == {0, 80}

\* The fields before StatsView::new has run.
NoView ==
    /\ popup = "closed"
    /\ lines = <<>>
    /\ state = ScrollStateNew
    /\ complete = FALSE
    /\ last_visible_rows = 0

\* StatsView::new
StatsViewNew ==
    /\ popup = "closed"
    /\ popup' = "open"
    /\ lines' = build_stats_lines
    /\ state' = [ScrollStateNew EXCEPT !.selected_idx = 0]
    /\ complete' = FALSE
    /\ last_visible_rows' = MAX_POPUP_ROWS
    /\ last_call' = Call("new", <<>>)
    /\ UNCHANGED <<statsVars, now, scrollVars, twinVars, history>>

visible_len == Len(lines)

visible_rows_for_scroll_uncached ==
    IF visible_len = 0 THEN 0 ELSE Min(MAX_POPUP_ROWS, visible_len)
visible_rows_for_scroll ==
    IF visible_len = 0 THEN 0 ELSE Min(last_visible_rows, visible_len)

move_up(st) ==
    IF visible_len = 0 THEN st
    ELSE ensure_visible(move_up_wrap(st, visible_len), visible_len,
                        visible_rows_for_scroll)

move_down(st) ==
    IF visible_len = 0 THEN st
    ELSE ensure_visible(move_down_wrap(st, visible_len), visible_len,
                        visible_rows_for_scroll)

\* What handle_key_event's match arms select.
IsUpKeyAnyModifier(key) == key.code \in {"Up", "k"}
IsUpKey(key) ==
    \/ key.code = "Up"
    \/ key.code = "k" /\ key.modifiers = "NONE"
IsDownKey(key) ==
    \/ key.code = "Down"
    \/ key.code = "j" /\ key.modifiers = "NONE"
IsDismissKey(key) == key.code \in {"Esc", "Enter"}

\* on_ctrl_c
on_ctrl_c_toggle == complete' = ~complete
on_ctrl_c == complete' = TRUE

handle_key_event(key) ==
    /\ popup = "open"
    /\ IF IsUpKey(key) THEN state' = move_up(state) /\ UNCHANGED complete
       ELSE IF IsDownKey(key) THEN state' = move_down(state) /\ UNCHANGED complete
       ELSE IF IsDismissKey(key) THEN on_ctrl_c /\ UNCHANGED state
       ELSE UNCHANGED <<state, complete>>
    /\ last_call' = Call("key", <<>>)
    /\ UNCHANGED <<popup, lines, last_visible_rows, statsVars, now, scrollVars, twinVars, history>>

\* The list height render computes for an area of the given height.
ListHeight(area_height) ==
    LET content_area_height == SaturatingSub(area_height, 1)
        content_inner_height == SaturatingSub(content_area_height, 2)
        available_height == SaturatingSub(content_inner_height, HeaderHeight + 1)
        max_list_height == Min(MAX_POPUP_ROWS, Len(lines))
    IN  Min(max_list_height, available_height)

\* The offset render slices the lines at.
ScrollOffsetStale(visible_rows) == state.scroll_top
ScrollOffset(visible_rows) ==
    IF visible_rows = 0 THEN 0
    ELSE ensure_visible(state, Len(lines), visible_rows).scroll_top

\* iter().skip(offset).take(rows)
SkipTake(seq, offset, rows) ==
    SubSeq(seq, offset + 1, Min(offset + rows, Len(seq)))

\* Renderable::render
render_rebuilding(area_height, area_width) ==
    /\ popup = "open"
    /\ lines' = build_stats_lines
    /\ IF area_height = 0 \/ area_width = 0
       THEN /\ last_call' = Call("render", [drawn |-> FALSE])
            /\ UNCHANGED last_visible_rows
       ELSE LET visible_rows == ListHeight(area_height)
                scroll_offset == ScrollOffset(visible_rows)
            IN  /\ last_visible_rows' = visible_rows
                /\ last_call' = Call("render",
                        [drawn |-> TRUE,
                         area_height |-> area_height,
                         scroll_offset |-> scroll_offset,
                         visible_rows |-> visible_rows,
                         visible_lines |-> SkipTake(lines, scroll_offset, visible_rows)])
    /\ UNCHANGED <<popup, state, complete, statsVars, now, scrollVars, twinVars, history>>
render_committing(area_height, area_width) ==
    /\ popup = "open"
    /\ IF area_height = 0 \/ area_width = 0
       THEN /\ last_call' = Call("render", [drawn |-> FALSE])
            /\ UNCHANGED <<last_visible_rows, state>>
       ELSE LET visible_rows == ListHeight(area_height)
                scroll_offset == ScrollOffset(visible_rows)
            IN  /\ last_visible_rows' = visible_rows
                /\ state' = [state EXCEPT !.scroll_top = scroll_offset]
                /\ last_call' = Call("render",
                        [drawn |-> TRUE,
                         area_height |-> area_height,
                         scroll_offset |-> scroll_offset,
                         visible_rows |-> visible_rows,
                         visible_lines |-> SkipTake(lines, scroll_offset, visible_rows)])
    /\ UNCHANGED <<popup, lines, complete, statsVars, now, scrollVars, twinVars, history>>
render(area_height, area_width) ==
    /\ popup = "open"
    /\ IF area_height = 0 \/ area_width = 0
       THEN /\ last_call' = Call("render", [drawn |-> FALSE])
            /\ UNCHANGED last_visible_rows
       ELSE LET visible_rows == ListHeight(area_height)
                scroll_offset == ScrollOffset(visible_rows)
            IN  /\ last_visible_rows' = visible_rows
                /\ last_call' = Call("render",
                        [drawn |-> TRUE,
                         area_height |-> area_height,
                         scroll_offset |-> scroll_offset,
                         visible_rows |-> visible_rows,
                         visible_lines |-> SkipTake(lines, scroll_offset, visible_rows)])
    /\ UNCHANGED <<popup, lines, state, complete, statsVars, now, scrollVars, twinVars, history>>

(* ========================== specifications ============================= *)
NoScrollDriver == win = ScrollStateNew /\ list_length = 0
\* SessionStats::new() of the second aggregator: files_accessed is empty.
NoTwin == twin_accessed = <<>>

Init ==
    /\ now = 0
    /\ SessionStatsNew
    /\ NoView
    /\ NoScrollDriver
    /\ NoTwin
    /\ last_call = Call("init", <<>>)
    /\ history = <<>>

\* The popup: file accesses are recorded (they add lines to the Files
\* section), the popup is opened, then key events and render passes
\* interleave freely.
SetupView ==
    /\ popup = "closed"
    /\ Len(history) < MaxSetupCalls
    /\ record_file_accessed("src/main.rs")
KeyEvent == \E key \in KeyEvents : handle_key_event(key)
\* The host hands Ctrl-C to the view through BottomPaneView::on_ctrl_c.
CtrlC ==
    /\ popup = "open"
    /\ on_ctrl_c
    /\ last_call' = Call("on_ctrl_c", <<>>)
    /\ UNCHANGED <<popup, lines, state, last_visible_rows, statsVars, now,
                   scrollVars, twinVars, history>>
RenderPass ==
    \E area_height \in 0..MaxAreaHeight, area_width \in AreaWidths :
        render(area_height, area_width)
NextView == SetupView \/ StatsViewNew \/ KeyEvent \/ CtrlC \/ RenderPass
SpecView == Init /\ [][NextView]_vars

\* A free-standing ScrollState over a list of any length up to
\* MaxListLength, driven by any sequence of moves and ensure_visible calls
\* whose viewport_rows varies from call to call.
InitScroll ==
    /\ now = 0
    /\ SessionStatsNew
    /\ NoView
    /\ list_length \in 0..MaxListLength
    /\ win = [ScrollStateNew EXCEPT
                !.selected_idx = IF list_length > 0 THEN 0 ELSE None]
    /\ NoTwin
    /\ last_call = Call("init", <<>>)
    /\ history = <<>>
ScrollMoveUp ==
    /\ win' = move_up_wrap(win, list_length)
    /\ last_call' = Call("move_selection_up", <<>>)
    /\ UNCHANGED <<list_length, twinVars, statsVars, now, viewVars, history>>
ScrollMoveDown ==
    /\ win' = move_down_wrap(win, list_length)
    /\ last_call' = Call("move_selection_down", <<>>)
    /\ UNCHANGED <<list_length, twinVars, statsVars, now, viewVars, history>>
ScrollEnsureVisible ==
    \E viewport_rows \in 0..list_length :
        /\ win' = ensure_visible(win, list_length, viewport_rows)
        /\ last_call' = Call("ensure_visible",
                              [viewport_rows |-> viewport_rows, before |-> win])
        /\ UNCHANGED <<list_length, twinVars, statsVars, now, viewVars, history>>
NextScroll == ScrollMoveUp \/ ScrollMoveDown \/ ScrollEnsureVisible
SpecScroll == InitScroll /\ [][NextScroll]_vars

\* The aggregator, one group of operations at a time.
RecordCommand ==
    \E exit_code \in ExitCodes, duration \in Durations :
        record_command(exit_code, duration)
NextCommands == Len(history) < MaxCalls /\ RecordCommand
SpecCommands == Init /\ [][NextCommands]_vars

RecordFileModified == \E path \in Paths : record_file_modified(path)
RecordFileAccessed == \E path \in Paths : record_file_accessed(path)
NextFiles ==
    Len(history) < MaxCalls /\ (RecordFileModified \/ RecordFileAccessed)
SpecFiles == Init /\ [][NextFiles]_vars

\* Two aggregators, each with a HashMap of its own (std's RandomState seeds
\* every map separately), receive the same record_file_accessed calls.
TwinRecordFileAccessed ==
    \E path \in Paths :
        /\ files_accessed' \in Touch(files_accessed, path)
        /\ twin_accessed' \in Touch(twin_accessed, path)
        /\ Log("record_file_accessed", path)
        /\ UNCHANGED <<commands, files_modified, turn_token_usage, current_turn,
                       model_wait_time, tool_execution_time, model_request_start,
                       tool_execution_start, session_start, now, viewVars,
                       scrollVars>>
\* Both are asked for their top `limit` accessed files.
TwinTopAccessedFiles ==
    \E limit \in 0..(Cardinality(Paths) + 1) :
        /\ last_call' = Call("top_accessed_files",
                [limit |-> limit,
                 top |-> top_accessed_files(limit),
                 twin_top |-> Truncate(SortByCountDesc(twin_accessed), limit)])
        /\ UNCHANGED <<statsVars, now, viewVars, scrollVars, twinVars, history>>
NextTwin ==
    \/ Len(history) < MaxCalls /\ TwinRecordFileAccessed
    \/ TwinTopAccessedFiles
SpecTwin == Init /\ [][NextTwin]_vars

RecordTurnTokens == \E usage \in TokenUsages : record_turn_tokens(usage)
NextTurns == Len(history) < MaxCalls /\ (start_turn \/ RecordTurnTokens)
SpecTurns == Init /\ [][NextTurns]_vars

TimingCall ==
    /\ Len(history) < MaxCalls
    /\ \/ start_model_request
       \/ end_model_request
       \/ start_tool_execution
       \/ end_tool_execution
NextTiming == TimingCall \/ Tick
SpecTiming == Init /\ [][NextTiming]_vars

\* The popup next to a live aggregator: aggregator calls (MaxSetupCalls of
\* them, before or after the popup is opened) and clock ticks interleave
\* with key events and render passes.
SnapshotStatsCall ==
    /\ Len(history) < MaxSetupCalls
    /\ \/ record_command(1, 1500)
       \/ record_file_modified("src/lib.rs")
       \/ record_file_accessed("src/main.rs")
       \/ start_turn
       \/ \E usage \in TokenUsages : usage.input_tokens > 0 /\ record_turn_tokens(usage)
       \/ start_model_request
       \/ end_model_request
       \/ start_tool_execution
       \/ end_tool_execution
SnapshotKeyEvent ==
    \E key \in [code : {"Down", "Esc"}, modifiers : {"NONE"}] :
        handle_key_event(key)
SnapshotRenderPass ==
    \E area_height \in {0, MaxAreaHeight} : render(area_height, 80)
NextSnapshot ==
    \/ SnapshotStatsCall
    \/ Tick
    \/ StatsViewNew
    \/ SnapshotKeyEvent
    \/ SnapshotRenderPass
SpecSnapshot == Init /\ [][NextSnapshot]_vars

\* The popup over aggregators of every size: up to MaxLineFiles distinct
\* files are accessed (each new one entering the map at any place), then up
\* to MaxLineTurns turns are recorded, then the popup is opened and takes
\* navigate keys and render passes.  The paths are bare file names, which
\* Path::file_name returns whole.
LinePath(i) == "f" \o ToString(i) \o ".rs"
LinesAccessFile ==
    /\ popup = "closed"
    /\ turn_token_usage = <<>>
    /\ files_accessed_count < MaxLineFiles
    /\ record_file_accessed(LinePath(files_accessed_count + 1))
LinesRecordTurn ==
    /\ popup = "closed"
    /\ Len(turn_token_usage) < MaxLineTurns
    /\ \E usage \in TokenUsages : usage.input_tokens > 0 /\ record_turn_tokens(usage)
LinesKeyEvent ==
    \E key \in [code : {"Up", "Down"}, modifiers : {"NONE"}] :
        handle_key_event(key)
LinesRenderPass ==
    \E area_height \in {0, MaxAreaHeight} : render(area_height, 80)
NextLines ==
    \/ LinesAccessFile
    \/ LinesRecordTurn
    \/ StatsViewNew
    \/ LinesKeyEvent
    \/ LinesRenderPass
SpecLines == Init /\ [][NextLines]_vars

\* format_duration applied to whole-millisecond durations around 0, 1 s,
\* 1 min, 1 h, 1 h 1 min 1 s and 2 h.
FormatInputs ==
    {d \in UNION {(c - FormatWindow)..(c + FormatWindow) :
                    c \in {0, 1000, 60000, 3600000, 3661000, 7200000}} : d >= 0}
FormatDuration ==
    \E d \in FormatInputs :
        /\ last_call' = Call("format_duration",
                             [d |-> d, text |-> format_duration(d)])
        /\ UNCHANGED <<statsVars, now, viewVars, scrollVars, twinVars, history>>
NextFormat == FormatDuration
SpecFormat == Init /\ [][NextFormat]_vars

(* ============================== claims ================================= *)

\* C1: in the free ScrollWindow driver, right after every ensure_visible call
\* made with viewport_rows > 0 on a non-empty list, the selection lies in the
\* window: scroll_top <= selected_index < scroll_top + viewport_rows.
C1_SelectionInWindow ==
    (/\ last_call.op = "ensure_visible"
     /\ last_call.arg.viewport_rows > 0
     /\ list_length > 0)
    => /\ win.scroll_top <= win.selected_idx
       /\ win.selected_idx < win.scroll_top + last_call.arg.viewport_rows
\* ensure_visible had to move the window: the selection was outside it.
C1_Witness ==
    /\ last_call.op = "ensure_visible"
    /\ last_call.arg.viewport_rows > 0
    /\ list_length > 0
    /\ ~(/\ last_call.arg.before.scroll_top <= win.selected_idx
         /\ win.selected_idx <
                last_call.arg.before.scroll_top + last_call.arg.viewport_rows)

\* C2: every render pass with list_height > 0 slices a window
\* [scroll_offset, scroll_offset + list_height) that holds the selected line,
\* whatever the key events and area heights before it.
C2_RenderedWindowHoldsSelection ==
    (/\ last_call.op = "render"
     /\ last_call.arg.drawn
     /\ last_call.arg.visible_rows > 0)
    => /\ last_call.arg.scroll_offset <= state.selected_idx
       /\ state.selected_idx <
              last_call.arg.scroll_offset + last_call.arg.visible_rows
\* A render whose height makes the committed scroll_top stale: the window at
\* the committed scroll_top would miss the selection.
C2_Witness ==
    /\ last_call.op = "render"
    /\ last_call.arg.drawn
    /\ last_call.arg.visible_rows > 0
    /\ ~(/\ state.scroll_top <= state.selected_idx
         /\ state.selected_idx < state.scroll_top + last_call.arg.visible_rows)

\* C3: right after every ensure_visible call with viewport_rows > 0 on a
\* non-empty list, 0 <= scroll_top <= max(0, list_length - viewport_rows);
\* scroll_top = 0 when viewport_rows >= list_length; and the window sliced
\* at scroll_top holds exactly viewport_rows lines.
C3_ScrollTopClamped ==
    (/\ last_call.op = "ensure_visible"
     /\ last_call.arg.viewport_rows > 0
     /\ list_length > 0)
    => LET rows == last_call.arg.viewport_rows
           list == [i \in 1..list_length |-> i]
       IN  /\ 0 <= win.scroll_top
           /\ win.scroll_top <= Max(0, list_length - rows)
           /\ rows >= list_length => win.scroll_top = 0
           /\ Len(SkipTake(list, win.scroll_top, Min(rows, list_length)))
                = Min(rows, list_length)
\* The viewport grew while the selection was at the end of the list: the
\* scroll_top before the call was beyond list_length - viewport_rows.
C3_Witness ==
    /\ last_call.op = "ensure_visible"
    /\ last_call.arg.viewport_rows > 1
    /\ win.selected_idx = list_length - 1
    /\ last_call.arg.before.scroll_top > list_length - last_call.arg.viewport_rows

RECURSIVE MoveUpTimes(_, _, _)
MoveUpTimes(st, len, k) ==
    IF k = 0 THEN st ELSE MoveUpTimes(move_up_wrap(st, len), len, k - 1)
RECURSIVE MoveDownTimes(_, _, _)
MoveDownTimes(st, len, k) ==
    IF k = 0 THEN st ELSE MoveDownTimes(move_down_wrap(st, len), len, k - 1)

\* C4: navigation is circular.  On a list of N > 0 lines a move up takes
\* index 0 to N - 1 and any other index down by one, a move down takes N - 1
\* to 0 and any other index up by one; N moves in one direction, and an up
\* followed by a down (or the reverse), give back the starting index.
C4_CircularNavigation ==
    /\ [](list_length > 0 =>
            /\ MoveUpTimes(win, list_length, list_length) = win
            /\ MoveDownTimes(win, list_length, list_length) = win
            /\ move_down_wrap(move_up_wrap(win, list_length), list_length) = win
            /\ move_up_wrap(move_down_wrap(win, list_length), list_length) = win)
    /\ [][list_length > 0 =>
            /\ ScrollMoveUp =>
                 win'.selected_idx = IF win.selected_idx = 0
                                     THEN list_length - 1
                                     ELSE win.selected_idx - 1
            /\ ScrollMoveDown =>
                 win'.selected_idx = IF win.selected_idx = list_length - 1
                                     THEN 0
                                     ELSE win.selected_idx + 1]_vars
\* A move up has just wrapped from index 0 to the last index.
C4_Witness ==
    /\ last_call.op = "move_selection_up"
    /\ list_length > 1
    /\ win.selected_idx = list_length - 1

\* C5: the popup is not complete after construction, a key event makes it
\* complete exactly when the key is Escape or Enter, and once complete it
\* stays complete under every key event, render pass and on_ctrl_c.
C5_CompleteIsAbsorbing ==
    [][/\ StatsViewNew => ~complete'
       /\ complete => complete'
       /\ last_call'.op = "key" =>
            \A key \in KeyEvents :
                handle_key_event(key) =>
                    (complete' <=> (complete \/ key.code \in {"Esc", "Enter"}))
       /\ last_call'.op = "render" => (complete' <=> complete)]_vars
\* The popup was dismissed and has since been rendered after a move.
C5_Witness ==
    /\ complete
    /\ last_call.op = "render"
    /\ state.selected_idx > 0

\* C6: up-arrow or unmodified 'k' moves the selection up, down-arrow or
\* unmodified 'j' moves it down, Escape or Enter dismisses; a modified 'k' or
\* 'j' and every other key leave selected_idx, scroll_top, the cached row
\* count, the complete flag and the lines unchanged.
C6_KeyMap ==
    [][last_call'.op = "key" => \A key \in KeyEvents :
        handle_key_event(key) =>
            LET up == key.code = "Up" \/ (key.code = "k" /\ key.modifiers = "NONE")
                down == key.code = "Down" \/ (key.code = "j" /\ key.modifiers = "NONE")
                dismiss == key.code \in {"Esc", "Enter"}
                n == Len(lines)
                sel == state.selected_idx
            IN  /\ up => /\ state'.selected_idx = IF sel = 0 THEN n - 1 ELSE sel - 1
                         /\ UNCHANGED <<complete, lines, last_visible_rows>>
                /\ down => /\ state'.selected_idx = IF sel = n - 1 THEN 0 ELSE sel + 1
                           /\ UNCHANGED <<complete, lines, last_visible_rows>>
                /\ dismiss => /\ complete'
                              /\ UNCHANGED <<state, lines, last_visible_rows>>
                /\ ~(up \/ down \/ dismiss) =>
                        UNCHANGED <<state, complete, lines, last_visible_rows>>]_vars
\* A key event has just taken the selection from the first to the last line.
C6_Witness ==
    /\ last_call.op = "key"
    /\ ~complete
    /\ state.selected_idx = Len(lines) - 1

\* C7: end_model_request with no model-wait interval open, and
\* end_tool_execution with no tool-exec interval open, change no aggregator
\* field: both totals and both markers included.
C7_EndWithoutStartIsNoOp ==
    [][/\ (end_model_request /\ model_request_start = None)
            => UNCHANGED statsVars
       /\ (end_tool_execution /\ tool_execution_start = None)
            => UNCHANGED statsVars]_vars
\* Two end_model_request calls in a row after an interval that took time.
C7_Witness ==
    /\ Len(history) >= 3
    /\ history[Len(history)].op = "end_model_request"
    /\ history[Len(history) - 1].op = "end_model_request"
    /\ model_wait_time > 0
    /\ now > history[Len(history) - 1].arg

TurnNumbersAreOrdinals ==
    \A n \in DOMAIN turn_token_usage : turn_token_usage[n].turn_number = n
\* start_turn was the call before each record_turn_tokens.
StartBeforeEachRecord ==
    \A i \in DOMAIN history :
        history[i].op = "record_turn_tokens"
            => i > 1 /\ history[i - 1].op = "start_turn"
\* Exactly one start_turn was called before each record_turn_tokens: since
\* the previous record_turn_tokens, or since construction for the first.
OneStartBeforeEachRecord ==
    \A i \in DOMAIN history :
        history[i].op = "record_turn_tokens"
            => /\ i > 1 /\ history[i - 1].op = "start_turn"
               /\ i > 2 => history[i - 2].op = "record_turn_tokens"

\* C8 as stated: if start_turn is called before each record_turn_tokens, the
\* Nth record of the turn token log has turn_number N.
C8_Original == StartBeforeEachRecord => TurnNumbersAreOrdinals
\* C8 amended: if exactly one start_turn is called before each
\* record_turn_tokens, the Nth record of the turn token log has turn_number N.
C8_TurnNumbers == OneStartBeforeEachRecord => TurnNumbersAreOrdinals
\* Two turns were started and recorded in alternation.
C8_Witness ==
    /\ OneStartBeforeEachRecord
    /\ Len(turn_token_usage) = 2

CallsOf(op) == {i \in DOMAIN history : history[i].op = op}

\* C9: successful + failed = total; successful counts the record_command
\* calls with exit status 0 and total counts all of them; success_rate is
\* 100 on an empty log and successful / total * 100 otherwise.
C9_CommandCounts ==
    LET calls == CallsOf("record_command")
        zero == {i \in calls : history[i].arg[1] = 0}
    IN  /\ successful_commands + failed_commands = total_commands
        /\ total_commands = Cardinality(calls)
        /\ successful_commands = Cardinality(zero)
        /\ IF calls = {}
           THEN success_rate[1] = 100 * success_rate[2]
           ELSE success_rate[1] * Cardinality(calls)
                    = 100 * Cardinality(zero) * success_rate[2]
\* Three commands, two with exit status 0 and one with a negative one.
C9_Witness ==
    /\ successful_commands = 2
    /\ failed_commands = 1
    /\ \E i \in DOMAIN commands : commands[i].exit_code < 0

Recorded(op, path) == Cardinality({i \in CallsOf(op) : history[i].arg = path})

\* C10: each map holds one entry per distinct path recorded in it, the
\* entry's count is the number of times the path was recorded, entries are
\* never removed, counts never decrease, and recording an access leaves the
\* modified map alone (and a modification the accessed map).
C10_FileCounters ==
    /\ [](/\ files_accessed_count =
                Cardinality({p \in Paths : Recorded("record_file_accessed", p) > 0})
          /\ files_modified_count =
                Cardinality({p \in Paths : Recorded("record_file_modified", p) > 0})
          /\ \A p \in Paths :
                /\ Count(files_accessed, p) = Recorded("record_file_accessed", p)
                /\ Count(files_modified, p) = Recorded("record_file_modified", p))
    /\ [][/\ \A p \in Paths :
                /\ Count(files_accessed', p) >= Count(files_accessed, p)
                /\ Count(files_modified', p) >= Count(files_modified, p)
          /\ Keys(files_accessed) \subseteq Keys(files_accessed')
          /\ Keys(files_modified) \subseteq Keys(files_modified')
          /\ (history' # history /\ last_call'.op = "record_file_accessed")
                => files_modified' = files_modified
          /\ (history' # history /\ last_call'.op = "record_file_modified")
                => files_accessed' = files_accessed]_vars
\* One path recorded as accessed three times, and a modification as well.
C10_Witness ==
    /\ files_accessed_count = 1
    /\ \E p \in Paths : Count(files_accessed, p) = 3
    /\ files_modified_count = 1

\* The properties C11 asks of a top-k list `top` taken from `map` with `limit`.
IsTopOf(top, map, limit) ==
    /\ Len(top) = Min(limit, Cardinality(Keys(map)))
    /\ \A i \in 1..(Len(top) - 1) : top[i].count >= top[i + 1].count
    /\ \A i \in DOMAIN top :
          /\ top[i].path \in Keys(map)
          /\ top[i].count = Count(map, top[i].path)
    /\ \A i, j \in DOMAIN top : top[i].path = top[j].path => i = j
    /\ \A p \in Keys(map) :
          (\A i \in DOMAIN top : top[i].path # p)
             => \A i \in DOMAIN top : Count(map, p) <= top[i].count
    /\ limit = 0 => top = <<>>

\* C11: top_accessed_files(limit) and top_modified_files(limit) return
\* exactly min(limit, number of distinct paths) pairs, in non-increasing
\* order of count, each an entry of the map with its true count, no path
\* twice, no omitted path with a strictly larger count than a returned one;
\* a limit of 0 returns the empty sequence.
C11_TopFiles ==
    \A limit \in 0..(Cardinality(Paths) + 1) :
        /\ IsTopOf(top_accessed_files(limit), files_accessed, limit)
        /\ IsTopOf(top_modified_files(limit), files_modified, limit)
\* The map iterates the less accessed path first, so that the sort has to
\* reorder and a limit of 1 has to drop the less accessed path.
C11_Witness ==
    /\ files_accessed_count = 2
    /\ files_accessed[1].count < files_accessed[2].count
    /\ top_accessed_files(1) = <<files_accessed[2]>>

\* C12: top_accessed_files(k) breaks ties deterministically: two aggregators
\* that received the same sequence of record_file_accessed calls return the
\* same sequence, whatever order their maps iterate in.
C12_SameTopFiles ==
    last_call.op = "top_accessed_files"
        => last_call.arg.top = last_call.arg.twin_top

\* C13: format_duration switches form at the exact, unrounded cutoffs, for
\* every d in whole milliseconds: from 3600 s on '{h}h {m}m', from 60 s to
\* below 3600 s '{m}m {s}s', from 1 s to below 60 s '{s}s', below 1 s
\* '{millis}ms'; every number is truncated, never rounded, so that 999 ms,
\* 59999 ms and 3599999 ms stay in the smaller unit and 1000 ms, 60000 ms
\* and 3600000 ms take the larger.
C13_FormatCutoffs ==
    last_call.op = "format_duration" =>
        LET d == last_call.arg.d
            text == last_call.arg.text
        IN  /\ d >= 3600000 =>
                /\ Len(text) = 3 /\ text[1] = "h m"
                /\ text[3] \in 0..59
                /\ text[2] * 3600000 + text[3] * 60000 <= d
                /\ d < text[2] * 3600000 + (text[3] + 1) * 60000
            /\ (60000 <= d /\ d < 3600000) =>
                /\ Len(text) = 3 /\ text[1] = "m s"
                /\ text[3] \in 0..59
                /\ text[2] * 60000 + text[3] * 1000 <= d
                /\ d < text[2] * 60000 + (text[3] + 1) * 1000
            /\ (1000 <= d /\ d < 60000) =>
                /\ Len(text) = 2 /\ text[1] = "s"
                /\ text[2] * 1000 <= d /\ d < (text[2] + 1) * 1000
            /\ d < 1000 => text = <<"ms", d>>
\* One millisecond short of an hour is still shown in minutes and seconds.
C13_Witness ==
    /\ last_call.op = "format_duration"
    /\ last_call.arg.d = 3599999
    /\ last_call.arg.text = <<"m s", 59, 59>>

\* What C14 asks of a percentage `p`, a fraction <<numerator, denominator>>,
\* of the accumulated time `accumulated`.
IsPercentageOf(p, accumulated) ==
    /\ p[2] # 0
    /\ now - session_start = 0 => p[1] = 0
    /\ now - session_start # 0 =>
          p[1] * (now - session_start) = 100 * accumulated * p[2]

\* C14: model_wait_percentage() and tool_execution_percentage() return 0
\* whenever session_duration() is exactly zero and otherwise 100 times the
\* accumulated time over session_duration(); nothing is ever divided by
\* zero.
C14_Percentages ==
    /\ IsPercentageOf(model_wait_percentage, model_wait_time)
    /\ IsPercentageOf(tool_execution_percentage, tool_execution_time)
\* One millisecond of model wait in a session two milliseconds old: 50%.
C14_Witness ==
    /\ model_wait_time = 1
    /\ session_duration = 2
    /\ model_wait_percentage = <<100, 2>>
    /\ tool_execution_percentage[1] = 0

\* C15: the popup is a snapshot.  Its line list is fixed at construction:
\* no aggregator operation, passage of time, key event or render pass after
\* construction changes it; and constructing the popup, rendering it or
\* handing it a key never changes the aggregator.
C15_Snapshot ==
    [][/\ popup = "open" => lines' = lines
       /\ last_call'.op \in {"new", "key", "render"} =>
             /\ statsVars' = statsVars
             /\ history' = history]_vars
\* The aggregator has recorded a call and the clock has moved since the
\* popup was opened, and the popup has been rendered since: its lines are
\* no longer what the aggregator would give now.
C15_Witness ==
    /\ popup = "open"
    /\ last_call.op = "render"
    /\ last_call.arg.drawn
    /\ Len(history) > 0
    /\ lines # build_stats_lines
    /\ lines[2] = stat_line("Total executed", 0)
    /\ total_commands = 1

\* C16: build_stats_lines is referentially transparent: called twice on the
\* same aggregator, with no aggregator operation in between, at any two
\* points in time, it returns the same lines, the Timing section's
\* session-duration and percentage lines included.  The first call is the
\* one StatsView::new made (its result is `lines`), the second is made now.
C16_SameLinesAtAnyTime ==
    last_call.op = "new" => build_stats_lines = lines

\* The rows left for the list in an area of the given height: the content
\* area is the area less the footer row and less one row of inset above and
\* below, and the header and one separator row come off it.
AvailableRows(area_height) ==
    LET content_height == Max(0, Max(0, area_height - 1) - 2)
    IN  Max(0, content_height - HeaderHeight - 1)

\* C17: each render pass on a non-zero area stores
\* min(configured maximum, line count, max(0, content height - header
\* height - 1)) as the cached row count; a render on a zero-width or
\* zero-height area draws nothing and leaves the cached row count; nothing
\* but a render changes the cached row count, which is the configured
\* maximum until the first render; and a navigate key moves the selection
\* and calls ensure_visible with viewport_rows = min(cached row count, line
\* count).
C17_CachedRows ==
    /\ [](last_call.op = "new" => last_visible_rows = MAX_POPUP_ROWS)
    /\ []((last_call.op = "render" /\ last_call.arg.drawn) =>
            last_visible_rows =
                Min(MAX_POPUP_ROWS,
                    Min(Len(lines), AvailableRows(last_call.arg.area_height))))
    /\ [][/\ (last_call'.op = "render" /\ ~last_call'.arg.drawn)
                => last_visible_rows' = last_visible_rows
          /\ (popup = "open" /\ last_call'.op # "render")
                => last_visible_rows' = last_visible_rows
          /\ last_call'.op = "key" =>
                \A key \in KeyEvents :
                    handle_key_event(key) =>
                        /\ IsUpKey(key) =>
                              state' = ensure_visible(
                                  move_up_wrap(state, Len(lines)), Len(lines),
                                  Min(last_visible_rows, Len(lines)))
                        /\ (~IsUpKey(key) /\ IsDownKey(key)) =>
                              state' = ensure_visible(
                                  move_down_wrap(state, Len(lines)), Len(lines),
                                  Min(last_visible_rows, Len(lines)))]_vars
\* A render has cached three rows, and a key has since moved the selection
\* to the fourth line: the window has scrolled by one.
C17_Witness ==
    /\ last_call.op = "key"
    /\ last_visible_rows = 3
    /\ state = [selected_idx |-> 3, scroll_top |-> 1]

\* C18: the committed scroll position (selected_idx, scroll_top) is changed
\* only by navigate keys: a render pass, whatever its area, leaves it
\* unchanged (its ensure_visible runs on a copy), and so do the dismiss
\* keys and Ctrl-C; and a navigate key changes nothing but the scroll
\* position: the cached row count, the complete flag and the lines stay.
C18_CommittedScroll ==
    [][/\ last_call'.op \in {"render", "on_ctrl_c"} => state' = state
       /\ (popup = "open" /\ state' # state) => last_call'.op = "key"
       /\ last_call'.op = "key" =>
             \A key \in KeyEvents :
                 handle_key_event(key) =>
                     /\ (IsUpKey(key) \/ IsDownKey(key)) =>
                           /\ last_visible_rows' = last_visible_rows
                           /\ complete' = complete
                           /\ lines' = lines
                     /\ ~(IsUpKey(key) \/ IsDownKey(key)) => state' = state]_vars
\* A render pass has drawn the list from an offset other than the committed
\* scroll_top, which it left as it was.
C18_Witness ==
    /\ last_call.op = "render"
    /\ last_call.arg.drawn
    /\ last_call.arg.visible_rows > 0
    /\ last_call.arg.scroll_offset # state.scroll_top

\* The window invariant for (len, rows): the selection is in the window and
\* scroll_top is within [0, max(0, len - rows)].
WindowInvariant(st, len, rows) ==
    /\ st.scroll_top <= st.selected_idx
    /\ st.selected_idx < st.scroll_top + rows
    /\ 0 <= st.scroll_top
    /\ st.scroll_top <= Max(0, len - rows)

\* What every ensure_visible call does whatever the adjustment: a state that
\* satisfies the window invariant keeps its scroll_top, a selection below
\* the window lands on the window's last row, selected_index is kept, and a
\* second call with the same arguments changes nothing.
EnsureVisibleKeeps(before, after, len, rows) ==
    /\ (rows > 0 /\ len > 0 /\ WindowInvariant(before, len, rows))
          => after.scroll_top = before.scroll_top
    /\ (rows > 0 /\ len > 0 /\ before.selected_idx >= before.scroll_top + rows)
          => after.scroll_top = before.selected_idx - rows + 1
    /\ after.selected_idx = before.selected_idx
    /\ ensure_visible(after, len, rows) = after

\* C19 as stated: ensure_visible adjusts scroll_top minimally: a state that
\* already satisfies the window invariant keeps its scroll_top; when the
\* selection is above the window the new scroll_top equals selected_index,
\* when it is below, selected_index - viewport_rows + 1; selected_index
\* never changes; a second call with the same arguments changes nothing.
C19_Original ==
    last_call.op = "ensure_visible" =>
        LET before == last_call.arg.before
            rows == last_call.arg.viewport_rows
        IN  /\ EnsureVisibleKeeps(before, win, list_length, rows)
            /\ (rows > 0 /\ list_length > 0
                  /\ before.selected_idx < before.scroll_top)
                  => win.scroll_top = before.selected_idx

\* C19, amended: as stated, except that when the selection is above the
\* window the new scroll_top is the smaller of selected_index and
\* max(0, list_length - viewport_rows): the clamp can carry the window
\* further up than the selection.
C19_MinimalAdjust ==
    last_call.op = "ensure_visible" =>
        LET before == last_call.arg.before
            rows == last_call.arg.viewport_rows
        IN  /\ EnsureVisibleKeeps(before, win, list_length, rows)
            /\ (rows > 0 /\ list_length > 0
                  /\ before.selected_idx < before.scroll_top)
                  => win.scroll_top =
                        Min(before.selected_idx, Max(0, list_length - rows))
\* The selection was above a window scrolled to the end of the list, and
\* the viewport has grown: scroll_top ends up above the selection.
C19_Witness ==
    /\ last_call.op = "ensure_visible"
    /\ last_call.arg.viewport_rows > 0
    /\ last_call.arg.before.selected_idx < last_call.arg.before.scroll_top
    /\ win.scroll_top < win.selected_idx

\* C20: whatever the aggregator holds, build_stats_lines gives between 20
\* and 30 lines; so the popup's line list is never empty, and after any key
\* events and render passes selected_idx is present and
\* 0 <= selected_idx < line count.
C20_LinesAndSelection ==
    /\ 20 <= Len(build_stats_lines) /\ Len(build_stats_lines) <= 30
    /\ popup = "open" =>
          /\ lines # <<>>
          /\ 20 <= Len(lines) /\ Len(lines) <= 30
          /\ state.selected_idx # None
          /\ 0 <= state.selected_idx /\ state.selected_idx < Len(lines)
\* More than three files and more than five turns: the list is at its
\* longest, and the selection has been moved to its last line.
C20_Witness ==
    /\ popup = "open"
    /\ files_accessed_count > 3
    /\ Len(turn_token_usage) > 5
    /\ Len(lines) = 30
    /\ state.selected_idx = 29
    /\ last_call.op = "key"

\* C21: with a monotonic clock, after any sequence of start/end calls
\* (repeated starts and ends without a start included), model_wait_time and
\* tool_execution_time are each at most session_duration, neither ever
\* decreases, and each percentage lies within [0, 100].
C21_TotalsWithinSession ==
    /\ [](/\ 0 <= model_wait_time /\ model_wait_time <= now - session_start
          /\ 0 <= tool_execution_time /\ tool_execution_time <= now - session_start
          /\ \A p \in {model_wait_percentage, tool_execution_percentage} :
                p[2] > 0 /\ 0 <= p[1] /\ p[1] <= 100 * p[2])
    /\ [][/\ model_wait_time' >= model_wait_time
          /\ tool_execution_time' >= tool_execution_time]_vars
\* The tool ran for the whole session so far (100%), closed in two
\* intervals, and an end_tool_execution without a start has followed.
C21_Witness ==
    /\ session_duration = 2
    /\ tool_execution_time = 2
    /\ Len(history) = 4
    /\ history[2].op = "end_tool_execution"
    /\ history[3].op = "end_tool_execution"
    /\ history[4].op = "end_tool_execution"
    /\ tool_execution_percentage = <<200, 2>>

\* The instant of the open interval of the kind started by `start` and
\* ended by `end`, read from the calls made so far: that of the last start
\* call, if no end call has followed it; None otherwise.
OpenedAt(start, end) ==
    LET starts == {i \in DOMAIN history : history[i].op = start}
        ends == {i \in DOMAIN history : history[i].op = end}
    IN  IF starts = {} THEN None
        ELSE LET last == CHOOSE i \in starts : \A j \in starts : j <= i
             IN  IF \E j \in ends : j > last THEN None ELSE history[last].arg

\* C22: a start call never changes an accumulated total and replaces the
\* open marker; an end call adds the time since the most recent start of
\* its kind (t3 - t2 after starts at t1 and t2 and an end at t3, not
\* t3 - t1) and clears the marker; a model-request call leaves the tool
\* total and marker unchanged, and a tool call the model ones.
C22_StartReplacesMarker ==
    [][history' # history =>
        LET op == last_call'.op
            model_open == OpenedAt("start_model_request", "end_model_request")
            tool_open == OpenedAt("start_tool_execution", "end_tool_execution")
        IN  /\ op \in {"start_model_request", "end_model_request"} =>
                /\ tool_execution_time' = tool_execution_time
                /\ tool_execution_start' = tool_execution_start
            /\ op \in {"start_tool_execution", "end_tool_execution"} =>
                /\ model_wait_time' = model_wait_time
                /\ model_request_start' = model_request_start
            /\ op = "start_model_request" =>
                /\ model_wait_time' = model_wait_time
                /\ model_request_start' = now
            /\ op = "start_tool_execution" =>
                /\ tool_execution_time' = tool_execution_time
                /\ tool_execution_start' = now
            /\ op = "end_model_request" =>
                /\ model_request_start' = None
                /\ model_wait_time' = model_wait_time +
                      (IF model_open = None THEN 0 ELSE now - model_open)
            /\ op = "end_tool_execution" =>
                /\ tool_execution_start' = None
                /\ tool_execution_time' = tool_execution_time +
                      (IF tool_open = None THEN 0 ELSE now - tool_open)]_vars
\* start_model_request at t1, again at t2 > t1, end_model_request at
\* t3 > t2: the total is t3 - t2 and the marker is cleared.
C22_Witness ==
    /\ Len(history) = 3
    /\ history[1].op = "start_model_request"
    /\ history[2].op = "start_model_request"
    /\ history[3].op = "end_model_request"
    /\ history[1].arg < history[2].arg
    /\ history[2].arg < history[3].arg
    /\ model_wait_time = history[3].arg - history[2].arg
    /\ model_request_start = None

====
